---------------------------- MODULE Spec2Model ----------------------------
(***************************************************************************)
(* Grid thermal-contingency simulator and remediation planner              *)
(* (osu_hackathon/app.py with ieee738/ieee738.py).                         *)
(*                                                                         *)
(* Numbers.  The program computes in binary floating point.  Here every   *)
(* real quantity is an exact rational <<n, d>> with d > 0 in lowest terms, *)
(* so comparisons and sums are those of the real numbers the floats        *)
(* approximate.  The closed-form heat terms of the IEEE-738 model          *)
(* (powers, trigonometry, polynomial fits) are replaced by integer         *)
(* expressions with the same sign and zero behaviour; the control flow of  *)
(* the rating computation (validation, zero checks, the clamp of the       *)
(* conductor temperature, the clamp of the radicand) is the source's.      *)
(***************************************************************************)
EXTENDS Integers, Sequences, FiniteSets, TLC

(***************************************************************************)
(* Exact rational arithmetic                                               *)
(***************************************************************************)
Abs(x) == IF x < 0 THEN -x ELSE x

RECURSIVE GCD(_, _)
GCD(a, b) == IF b = 0 THEN a ELSE GCD(b, a % b)

\* The rational n/d (d # 0) in lowest terms with a positive denominator.
Rat(n, d) ==
    LET g == GCD(Abs(n), Abs(d))
        s == IF d < 0 THEN -1 ELSE 1
    IN  <<(s * n) \div g, (s * d) \div g>>

RInt(k)    == <<k, 1>>
RAdd(x, y) ==
    LET g == GCD(x[2], y[2])
    IN  Rat(x[1] * (y[2] \div g) + y[1] * (x[2] \div g), (x[2] \div g) * y[2])
RSub(x, y) == RAdd(x, <<-y[1], y[2]>>)
RMul(x, y) == Rat(x[1] * y[1], x[2] * y[2])
\* Division; the callers guard y # 0 as the source does.
RDiv(x, y) == Rat(x[1] * y[2], x[2] * y[1])
RLt(x, y)  == x[1] * y[2] < y[1] * x[2]
RLe(x, y)  == x[1] * y[2] <= y[1] * x[2]
RGt(x, y)  == RLt(y, x)
RZero      == RInt(0)

\* Python's round(x, 2), as a rational with denominator dividing 100
\* (round half to even on the exact value).
round2(x) ==
    LET t  == x[1] * 100
        q  == t \div x[2]
        r2 == 2 * (t % x[2])
    IN  IF r2 > x[2] \/ (r2 = x[2] /\ q % 2 = 1)
        THEN Rat(q + 1, 100)
        ELSE Rat(q, 100)

\* Largest k with k * k <= n, for n >= 0.
RECURSIVE isqrtFrom(_, _)
isqrtFrom(n, k) == IF (k + 1) * (k + 1) > n THEN k ELSE isqrtFrom(n, k + 1)
isqrt(n) == isqrtFrom(n, 0)


(***************************************************************************)
(* Network topology (master_df) and program constants                      *)
(***************************************************************************)
TEMP_INIT == 25
WIND_INIT == 2
LOAD_INIT == RInt(1)
COST_REROUTE_LINE == 500
COST_LOAD_CURTAIL == 2000
LOAD_CURTAIL_STEP == Rat(5, 100)
MAX_ACTIONS_PER_SOLUTION == 5
\* predict's fixed load multiplier, 1.15.
PREDICT_LOAD == Rat(115, 100)

\* One merged row of master_df.  RES_* in ohm/mile, CDRAD_in in inches,
\* MOT in deg C, p0_nominal in MVA, v_nom in kV.
Row(nm, b0, b1, v, p0, r25, r50, rad, mot) ==
    [name |-> nm, bus0 |-> b0, bus1 |-> b1, v_nom |-> v, p0_nominal |-> p0,
     RES_25C |-> r25, RES_50C |-> r50, CDRAD_in |-> rad, MOT |-> mot]

\* master_df = None: load_master_data failed and left the global unset.
NoneDF == [loaded |-> FALSE, rows |-> <<>>]

\* A loaded frame: two 138 kV lines sharing bus B2, one 69 kV line whose
\* maximum operating temperature is low enough to be reached by the ambient.
GridDF ==
    [loaded |-> TRUE,
     rows |-> << Row("L1", "B1", "B2", 138, 50, 1, 2, 1, 75),
                 Row("L2", "B2", "B3", 138, 50, 1, 2, 1, 75),
                 Row("L3", "B3", "B4", 69, 20, 1, 2, 1, 40) >>]

\* A loaded frame of six lines, more than n_1_analysis returns.
WideDF ==
    [loaded |-> TRUE,
     rows |-> << Row("L1", "B1", "B2", 138, 50, 1, 2, 1, 75),
                 Row("L2", "B2", "B3", 138, 50, 1, 2, 1, 75),
                 Row("L3", "B3", "B4", 69, 20, 1, 2, 1, 40),
                 Row("L4", "B1", "B3", 138, 30, 1, 2, 1, 75),
                 Row("L5", "B2", "B4", 69, 10, 1, 2, 1, 75),
                 Row("L6", "B1", "B4", 138, 20, 1, 2, 1, 75) >>]

\* A loaded frame whose 138 kV lines carry their nominal flow against the
\* line's orientation (p0_nominal < 0).
ReverseDF ==
    [loaded |-> TRUE,
     rows |-> << Row("L1", "B1", "B2", 138, -50, 1, 2, 1, 75),
                 Row("L2", "B2", "B3", 138, -50, 1, 2, 1, 75),
                 Row("L3", "B3", "B4", 69, 20, 1, 2, 1, 40) >>]

\* The frame load_master_data leaves behind when the merge of line 139
\* raises (line_flows_nominal.csv without a p0_nominal column): the global
\* already holds the merge of lines 129-137, the except clause of line 161
\* only prints.  No p0_nominal and no conductor columns.
PartialDF ==
    [loaded |-> TRUE,
     rows |-> << [name |-> "L1", bus0 |-> "B1", bus1 |-> "B2", v_nom |-> 138, MOT |-> 75],
                 [name |-> "L2", bus0 |-> "B2", bus1 |-> "B3", v_nom |-> 138, MOT |-> 75],
                 [name |-> "L3", bus0 |-> "B3", bus1 |-> "B4", v_nom |-> 69, MOT |-> 40] >>]

\* The columns of a frame.
Columns(df) == IF df.rows = <<>> THEN {} ELSE DOMAIN df.rows[1]

\* master_df['name'].tolist()
NamesOf(df) == [i \in 1..Len(df.rows) |-> df.rows[i].name]
NameSet(df) == {df.rows[i].name : i \in 1..Len(df.rows)}

(***************************************************************************)
(* ThermalRatingModel: Conductor.steady_state_thermal_rating               *)
(***************************************************************************)
\* input_validation's limit on RLo/RHi, 0.001 ohm/ft = 5.28 ohm/mile: on
\* whole ohm/mile values the test RES/5280 > 0.001 is RES > 5.
RES_LIMIT == 5
\* Solar heat gain per unit diameter under the fixed ambient of app.py
\* (noon, 12 Jun, latitude 27, clear atmosphere): a positive constant.
SOLAR_GAIN == 100

Max(a, b) == IF a >= b THEN a ELSE b

\* Conductor temperature in tenths of a degree after the guard of
\* natural_convection_heat_loss: Tc < Ta sets Tc = Ta + 0.1.
ClampedTc10(line, temp) ==
    IF line.MOT * 10 - temp * 10 < 0 THEN temp * 10 + 1 ELSE line.MOT * 10

Diameter(line) == line.CDRAD_in * 2

natural_convection_heat_loss(line, temp) ==
    Diameter(line) * (ClampedTc10(line, temp) - temp * 10)

forced_convection_heat_loss(line, temp, wind) ==
    (1 + Diameter(line) * wind) * (ClampedTc10(line, temp) - temp * 10)

convection_heat_loss(line, temp, wind) ==
    Max(natural_convection_heat_loss(line, temp),
        forced_convection_heat_loss(line, temp, wind))

radiated_heat_loss(line, temp) ==
    Diameter(line) * (ClampedTc10(line, temp) - temp * 10)

solar_heat_gain(line) == Diameter(line) * SOLAR_GAIN

\* Linear interpolation of the resistance between (25 C, RLo), (50 C, RHi).
get_res_Tc(line, temp) ==
    RAdd(RInt(line.RES_25C),
         Rat((line.RES_50C - line.RES_25C) * (ClampedTc10(line, temp) - 250),
             250))

\* [fault |-> TRUE] when the computation raises, else the rating in amps.
steady_state_thermal_rating(line, temp, wind) ==
    LET qc  == convection_heat_loss(line, temp, wind)
        qs  == solar_heat_gain(line)
        qr  == radiated_heat_loss(line, temp)
        rTc == get_res_Tc(line, temp)
        net == qc + qr - qs
        quo == RDiv(RInt(net), rTc)
    IN  IF line.RES_25C > RES_LIMIT \/ line.RES_50C > RES_LIMIT
        THEN [fault |-> TRUE, amps |-> 0]
        ELSE IF qs = 0 \/ qr = 0
        THEN [fault |-> TRUE, amps |-> 0]
        ELSE IF net < 0
        THEN [fault |-> FALSE, amps |-> 0]
        ELSE IF rTc = RZero
        THEN [fault |-> TRUE, amps |-> 0]       \* ZeroDivisionError
        ELSE IF RLt(quo, RZero)
        THEN [fault |-> TRUE, amps |-> 0]       \* math domain error
        ELSE [fault |-> FALSE, amps |-> isqrt(quo[1] \div quo[2])]

\* rating_mva = sqrt(3) * rating_amps * V * 1e-6 with V = v_nom * 1000: the
\* rating is proportional to amps * v_nom; the constant factor and the unit
\* of the abstract amps are folded into 1/69.
RatingMVA(line, amps) == Rat(amps * line.v_nom, 69)

(***************************************************************************)
(* GridStateSimulator: calculate_physics_state_internal                    *)
(*                                                                         *)
(* The function reads its offline set several times: once for the active   *)
(* partition, once for the offline partition, and once per row in the      *)
(* loop.  The operators below take what each read returned, so that a run  *)
(* whose set object changes between reads is the same computation.         *)
(***************************************************************************)
Indices(df) == 1..Len(df.rows)

\* groupby('v_nom')['p0_nominal'].sum() over the rows whose index is in
\* idx, looked up with .get(v, 0).
RECURSIVE SumP0(_, _, _)
SumP0(df, idx, v) ==
    IF idx = {} THEN 0
    ELSE LET i == CHOOSE j \in idx : TRUE
         IN  (IF df.rows[i].v_nom = v THEN df.rows[i].p0_nominal ELSE 0)
             + SumP0(df, idx \ {i}, v)

\* Rows of active_lines_df: ~master_df['name'].isin(set).
ActiveIdx(df, seenActive) == {i \in Indices(df) : df.rows[i].name \notin seenActive}
\* Rows of offline_lines_df: master_df['name'].isin(set).
OfflineIdx(df, seenOffline) == {i \in Indices(df) : df.rows[i].name \in seenOffline}

offline_load_mva_by_vnom(df, load_mult, seenOffline, v) ==
    RMul(RInt(SumP0(df, OfflineIdx(df, seenOffline), v)), load_mult)

active_nominal_load_by_vnom(df, seenActive, v) ==
    SumP0(df, ActiveIdx(df, seenActive), v)

\* current_load_mva of an active row.
CurrentLoad(df, line, load_mult, seenActive, seenOffline) ==
    LET base_load_mva == RMul(RInt(line.p0_nominal), load_mult)
        offline_load_at_v == offline_load_mva_by_vnom(df, load_mult, seenOffline, line.v_nom)
        total_active_load_at_v == active_nominal_load_by_vnom(df, seenActive, line.v_nom)
        extra_load_mva ==
            IF total_active_load_at_v > 0
            THEN RMul(offline_load_at_v, Rat(line.p0_nominal, total_active_load_at_v))
            ELSE RZero
    IN  RAdd(base_load_mva, extra_load_mva)

\* loading_percent with a rating of 0 treated as "no load at all".
LoadingUnguarded(current_load_mva, rating_mva) ==
    IF RGt(rating_mva, RZero)
    THEN RSub(RMul(RDiv(current_load_mva, rating_mva), RInt(100)), RInt(100))
    ELSE RInt(-100)

\* The status thresholds with >= in place of >.
StatusInclusive(loading_percent) ==
    IF RLe(RZero, loading_percent) THEN "overloaded"
    ELSE IF RLe(RInt(-15), loading_percent) THEN "stressed"
    ELSE "ok"

\* loading_percent: 0 unless the rating is positive.
LoadingPercent(current_load_mva, rating_mva) ==
    IF RGt(rating_mva, RZero)
    THEN RSub(RMul(RDiv(current_load_mva, rating_mva), RInt(100)), RInt(100))
    ELSE RZero

LineStatus(loading_percent) ==
    IF RGt(loading_percent, RZero) THEN "overloaded"
    ELSE IF RGt(loading_percent, RInt(-15)) THEN "stressed"
    ELSE "ok"

\* The dict appended to line_results for one row; isOff is the outcome of
\* `line.name in current_offline_set` at this row's iteration.
LineResult(df, line, temp, wind, load_mult, seenActive, seenOffline, isOff) ==
    LET r == steady_state_thermal_rating(line, temp, wind)
        rating_mva == RatingMVA(line, r.amps)
        current_load_mva == CurrentLoad(df, line, load_mult, seenActive, seenOffline)
        loading_percent == LoadingPercent(current_load_mva, rating_mva)
    IN  IF isOff
        THEN [name |-> line.name, bus0 |-> line.bus0, bus1 |-> line.bus1,
              loading |-> RZero, initial_status |-> "offline",
              final_color |-> "black", current_mva |-> RZero, rating_mva |-> RZero]
        ELSE IF r.fault
        THEN [name |-> line.name, bus0 |-> line.bus0, bus1 |-> line.bus1,
              loading |-> RZero, initial_status |-> "error",
              final_color |-> "gray", current_mva |-> RZero, rating_mva |-> RZero]
        ELSE [name |-> line.name, bus0 |-> line.bus0, bus1 |-> line.bus1,
              loading |-> loading_percent,
              initial_status |-> LineStatus(loading_percent),
              final_color |-> "green", current_mva |-> current_load_mva,
              rating_mva |-> rating_mva]

\* bus_status after the loop: the keys set to 'overloaded'.
BusStatus(line_results) ==
    UNION {{line_results[i].bus0, line_results[i].bus1} :
             i \in {j \in 1..Len(line_results) :
                      line_results[j].initial_status = "overloaded"}}

\* The second pass over line_results (final_color).
FinalColor(line, bus_status) ==
    IF line.initial_status = "offline" THEN line.final_color
    ELSE IF line.initial_status = "overloaded" THEN "red"
    ELSE IF line.bus0 \in bus_status \/ line.bus1 \in bus_status THEN "orange"
    ELSE "green"

\* A descending insertion that puts a line before the lines of equal loading.
RECURSIVE InsertBeforeEqual(_, _)
InsertBeforeEqual(sorted, x) ==
    IF sorted = <<>> THEN <<x>>
    ELSE IF RLe(Head(sorted).loading, x.loading) THEN <<x>> \o sorted
    ELSE <<Head(sorted)>> \o InsertBeforeEqual(Tail(sorted), x)

\* list.sort(key=loading, reverse=True): stable, descending.
RECURSIVE InsertDesc(_, _)
InsertDesc(sorted, x) ==
    IF sorted = <<>> THEN <<x>>
    ELSE IF RGt(x.loading, Head(sorted).loading) THEN <<x>> \o sorted
    ELSE <<Head(sorted)>> \o InsertDesc(Tail(sorted), x)

RECURSIVE SortFailures(_)
SortFailures(s) ==
    IF s = <<>> THEN <<>>
    ELSE InsertDesc(SortFailures(SubSeq(s, 1, Len(s) - 1)), s[Len(s)])

RECURSIVE SumLoading(_)
SumLoading(s) ==
    IF s = <<>> THEN RZero ELSE RAdd(Head(s).loading, SumLoading(Tail(s)))

\* Lines 285-320: colours, stress score, sorted failures, the returned dict.
\* raw is line_results after the loop, nActive is len(active_lines_df).
Report(raw, nActive) ==
    LET bus_status == BusStatus(raw)
        line_results ==
            [i \in 1..Len(raw) |->
                [raw[i] EXCEPT !.final_color = FinalColor(raw[i], bus_status)]]
        IsFail(l) == l.initial_status = "overloaded"
        all_failures == SelectSeq(line_results, IsFail)
        total == SumLoading(all_failures)
        total_stress_score ==
            IF nActive > 0 THEN RDiv(total, RInt(nActive)) ELSE total
    IN  [is_none |-> FALSE,
         line_results |-> line_results,
         bus_results |-> bus_status,
         report |-> [overall_stress |-> total_stress_score,
                     top_failures |-> SortFailures(all_failures),
                     failure_count |-> Len(all_failures)]]

\* `return None` of line 180.
NoneResult ==
    [is_none |-> TRUE, line_results |-> <<>>, bus_results |-> {},
     report |-> [overall_stress |-> RZero, top_failures |-> <<>>,
                 failure_count |-> 0]]

\* A whole run of calculate_physics_state_internal on a set that does not
\* change while it runs.
PhysicsState(df, temp, wind, load_mult, offset) ==
    IF ~df.loaded THEN NoneResult
    ELSE Report([i \in Indices(df) |->
                    LineResult(df, df.rows[i], temp, wind, load_mult,
                               offset, offset, df.rows[i].name \in offset)],
                Cardinality(ActiveIdx(df, offset)))

\* Lines 194-199 outside the try of line 219: groupby('v_nom')['p0_nominal']
\* raises KeyError on a frame without that column.
SimulatorFaults(df) == df.loaded /\ "p0_nominal" \notin Columns(df)

(***************************************************************************)
(* Process state                                                           *)
(*                                                                         *)
(* Requests are served by threads (app.run), so a toggle_line request can  *)
(* run between any two steps of a longer request.  The model has one       *)
(* longer request in flight, whose position is pc, and toggle_line as a    *)
(* single step.                                                            *)
(*                                                                         *)
(* Python sets are objects reached through references.  heap holds the     *)
(* set objects: "session" is the global offline_lines; "orig" and "cont"   *)
(* are the two sets a handler builds (original_offline_lines /             *)
(* sim_offline_lines / baseline_offline_lines, and contingency_offline_set *)
(* / sim_offline_set); "other" is the baseline_offline_lines of a second    *)
(* find_remediation request.  Locals hold references, so a local bound to  *)
(* the global without a copy sees later changes of the global.             *)
(***************************************************************************)
VARIABLES
    master_df,    \* the loaded frame, or NoneDF
    heap,         \* the set objects
    pc,           \* position of the request in flight, "idle" when none
    req,          \* its parameters
    sim,          \* locals of the running calculate_physics_state_internal
    results,      \* what the last simulator run returned
    loc,          \* locals of the handler (counters, accumulated lists)
    resp,         \* the response of the request that completed last
    toggles,      \* number of toggle_line requests served so far
    ind_len,      \* n of toolbox.individual, drawn once at import (line 110)
    toolbox_evaluate, \* what toolbox.evaluate is bound to (line 587)
    pop,          \* the population of the running search
    hof,          \* its hall of fame (at most one individual)
    gen,          \* generations completed
    nevals        \* fitness evaluations made by the running search

gaVars == <<ind_len, toolbox_evaluate, pop, hof, gen, nevals>>
vars == <<master_df, heap, pc, req, sim, results, loc, resp, toggles,
          ind_len, toolbox_evaluate, pop, hof, gen, nevals>>

\* The global offline_lines.
offline_lines == heap.session

LineNames == NameSet(GridDF)
\* A name that is no line of the topology.
UnknownName == "ZZ"

\* Binding a local to the existing object in place of copying it.
AliasSet(slot, src) == src

\* set(x), x.copy() of an existing set object src: the reference of the new
\* object (slot), which then receives the content of src.
NewSet(slot, src) == slot

\* set(data.get(..., [])): a new object built from the request's list.
SetFromList(slot) == slot

\* The handler's set objects are garbage once it has returned.
Release(h) == [h EXCEPT !.orig = {}, !.cont = {}]

NoReq == [op |-> "none", temp |-> 0, wind |-> 0, load_mult |-> RZero, n |-> 0,
          bad |-> FALSE, data |-> <<>>]
SimIdle == [forced |-> "None", cur |-> "None", ret |-> "idle",
            seenActive |-> {}, seenOffline |-> {}, marks |-> <<>>]
NoLoc == [baseline |-> 0, k |-> 0, acc |-> <<>>, orig |-> "None", cont |-> "None"]
NoResp == [code |-> 0, kind |-> "none"]

(***************************************************************************)
(* toggle_line (lines 340-362)                                             *)
(***************************************************************************)
\* A toggle that only ever adds.
AddOnly(s, line_name) == s \cup {line_name}

\* offline_lines after the if/else of lines 351-356.
ToggledSet(s, line_name) ==
    IF line_name \in s THEN s \ {line_name} ELSE s \cup {line_name}

\* new_status of lines 351-356, from the set before the change.
NewStatus(s, line_name) == IF line_name \in s THEN "online" ELSE "offline"

toggle_line(line_name) ==
    /\ IF line_name = ""
       THEN /\ resp' = [code |-> 400, kind |-> "line_name required"]
            /\ UNCHANGED heap
       ELSE /\ heap' = [heap EXCEPT !.session = ToggledSet(@, line_name)]
            /\ resp' = [code |-> 200, kind |-> "toggle",
                        line_name |-> line_name,
                        status |-> NewStatus(heap.session, line_name),
                        offline_lines |-> ToggledSet(heap.session, line_name)]
    /\ toggles' = toggles + 1
    /\ UNCHANGED <<gaVars, master_df, pc, req, sim, results, loc>>

(***************************************************************************)
(* calculate_physics_state_internal as a process                           *)
(***************************************************************************)
\* A run that reads the global set whatever it was given.
SessionSetOnly(forced) == "session"

\* Line 183: the set object the run reads.
CurrentOfflineSet(forced) == IF forced # "None" THEN forced ELSE "session"

\* Lines 178-183, entered from a handler that continues at ret.
SimCall(forced, ret) ==
    IF ~master_df.loaded
    THEN /\ results' = NoneResult
         /\ sim' = SimIdle
         /\ pc' = ret
    ELSE /\ results' = NoneResult
         /\ sim' = [SimIdle EXCEPT !.forced = forced,
                                   !.cur = CurrentOfflineSet(forced),
                                   !.ret = ret]
         /\ pc' = "sim_active"

\* Line 190: active_lines_df.
SimActive ==
    /\ pc = "sim_active"
    /\ sim' = [sim EXCEPT !.seenActive = heap[sim.cur]]
    /\ pc' = "sim_offline"
    /\ UNCHANGED <<gaVars, master_df, heap, req, results, loc, resp, toggles>>

\* Lines 191-199: offline_lines_df and the two group sums.
SimOffline ==
    /\ pc = "sim_offline"
    /\ sim' = [sim EXCEPT !.seenOffline = heap[sim.cur]]
    /\ pc' = "sim_loop"
    /\ UNCHANGED <<gaVars, master_df, heap, req, results, loc, resp, toggles>>

\* line_results after the loop, from what the reads returned.
RawResults(s) ==
    [i \in 1..Len(s.marks) |->
        LineResult(master_df, master_df.rows[i], req.temp, req.wind,
                   req.load_mult, s.seenActive, s.seenOffline, s.marks[i])]

\* Lines 202-283, one row per step; after the last row lines 285-320.
SimLoop ==
    /\ pc = "sim_loop"
    /\ LET i == Len(sim.marks) + 1
           s == [sim EXCEPT !.marks =
                     Append(@, master_df.rows[i].name \in heap[sim.cur])]
       IN  IF i < Len(master_df.rows)
           THEN /\ sim' = s
                /\ UNCHANGED <<pc, results>>
           ELSE /\ results' = Report(RawResults(s),
                                     Cardinality(ActiveIdx(master_df, s.seenActive)))
                /\ sim' = [s EXCEPT !.ret = "idle"]
                /\ pc' = sim.ret
    /\ UNCHANGED <<gaVars, master_df, heap, req, loc, resp, toggles>>

(***************************************************************************)
(* grid_status (lines 364-404)                                             *)
(***************************************************************************)
RoundLine(line) ==
    [name |-> line.name, status_color |-> line.final_color,
     loading |-> round2(line.loading),
     current_mva |-> round2(line.current_mva),
     rating_mva |-> round2(line.rating_mva)]

TopN(failures, n) ==
    [i \in 1..(IF n < Len(failures) THEN n ELSE Len(failures)) |->
        [name |-> failures[i].name, loading |-> round2(failures[i].loading)]]

\* The response dict of lines 382-402 and 530-552.
GridResponse(res, n, offl) ==
    [code |-> 200, kind |-> "grid",
     lines |-> [i \in 1..Len(res.line_results) |-> RoundLine(res.line_results[i])],
     buses |-> res.bus_results,
     report |-> [overall_stress |-> round2(res.report.overall_stress),
                 top_n_failures |-> TopN(res.report.top_failures, n),
                 failure_count |-> res.report.failure_count,
                 total_lines |-> Len(master_df.rows)],
     offline_lines |-> offl]

NotLoaded == [code |-> 500, kind |-> "Server data not loaded"]
InvalidInput == [code |-> 400, kind |-> "Invalid input parameters"]

\* Lines 365-377: the wrapper passes forced_offline_lines=None.
grid_status(temp, wind, load_mult, n) ==
    /\ pc = "idle"
    /\ req' = [NoReq EXCEPT !.op = "grid_status", !.temp = temp, !.wind = wind,
                            !.load_mult = load_mult, !.n = n]
    /\ SimCall("None", "gs_respond")
    /\ resp' = NoResp
    /\ loc' = NoLoc
    /\ UNCHANGED <<gaVars, master_df, heap, toggles>>

\* Lines 379-404.
gs_respond ==
    /\ pc = "gs_respond"
    /\ resp' = IF results.is_none THEN NotLoaded
               ELSE GridResponse(results, req.n, offline_lines)
    /\ pc' = "idle"
    /\ req' = NoReq /\ sim' = SimIdle /\ results' = NoneResult /\ loc' = NoLoc
    /\ UNCHANGED <<gaVars, master_df, heap, toggles>>

(***************************************************************************)
(* predict (lines 406-440)                                                 *)
(***************************************************************************)
\* One element of the posted list.  kind "ok": day, temp and wind present
\* and numeric; "bad_field": temp or wind missing or not a number;
\* "no_day": temp and wind fine, no 'day' key.
Day(d, kind, temp, wind) == [day |-> d, kind |-> kind, temp |-> temp, wind |-> wind]

\* The 'Error' entry of lines 434-438 (error = TRUE: both fields hold the
\* string 'Error').
ErrorMarker(d) ==
    [day |-> d, error |-> TRUE, predicted_failures |-> 0, predicted_stress |-> RZero]

\* Lines 421-424: lines with loading > 0 that are not offline.
PredictedFailures(res) ==
    Cardinality({i \in 1..Len(res.line_results) :
                   /\ RGt(res.line_results[i].loading, RZero)
                   /\ res.line_results[i].initial_status # "offline"})

Unhandled == [code |-> 500, kind |-> "unhandled exception"]

predict(days) ==
    /\ pc = "idle"
    /\ req' = [NoReq EXCEPT !.op = "predict", !.data = days,
                            !.load_mult = PREDICT_LOAD]
    /\ loc' = [NoLoc EXCEPT !.k = 1]
    /\ pc' = "pr_day"
    /\ resp' = NoResp
    /\ UNCHANGED <<gaVars, master_df, heap, sim, results, toggles>>

\* Top of the for loop, lines 412-419.
pr_day ==
    /\ pc = "pr_day"
    /\ IF loc.k > Len(req.data)
       THEN /\ resp' = [code |-> 200, kind |-> "predictions", predictions |-> loc.acc]
            /\ pc' = "idle"
            /\ req' = NoReq /\ sim' = SimIdle /\ results' = NoneResult /\ loc' = NoLoc
       ELSE LET d == req.data[loc.k]
            IN  IF d.kind = "bad_field"
                THEN /\ loc' = [loc EXCEPT !.k = @ + 1,
                                           !.acc = Append(@, ErrorMarker(d.day))]
                     /\ UNCHANGED <<pc, req, sim, results, resp>>
                ELSE /\ req' = [req EXCEPT !.temp = d.temp, !.wind = d.wind]
                     /\ SimCall("None", "pr_collect")
                     /\ UNCHANGED <<loc, resp>>
    /\ UNCHANGED <<gaVars, master_df, heap, toggles>>

\* Lines 421-438, after the simulator returned.
pr_collect ==
    /\ pc = "pr_collect"
    /\ LET d == req.data[loc.k]
       IN  IF d.kind = "no_day"
           \* day_data['day'] raises in the try block and again in the handler
           THEN /\ resp' = Unhandled
                /\ pc' = "idle"
                /\ req' = NoReq /\ sim' = SimIdle /\ results' = NoneResult
                /\ loc' = NoLoc
           ELSE /\ loc' = [loc EXCEPT
                    !.k = @ + 1,
                    !.acc = Append(@,
                        IF results.is_none THEN ErrorMarker(d.day)
                        ELSE [day |-> d.day, error |-> FALSE,
                              predicted_failures |-> PredictedFailures(results),
                              predicted_stress |-> round2(results.report.overall_stress)])]
                /\ pc' = "pr_day"
                /\ UNCHANGED <<req, sim, results, resp>>
    /\ UNCHANGED <<gaVars, master_df, heap, toggles>>

(***************************************************************************)
(* n_1_analysis (lines 442-501)                                            *)
(***************************************************************************)
\* Lines 448-466.
n_1_analysis(temp, wind, load_mult) ==
    /\ pc = "idle"
    /\ IF ~master_df.loaded
       THEN /\ resp' = NotLoaded
            /\ UNCHANGED <<heap, pc, req, sim, results, loc>>
       ELSE LET o == NewSet("orig", "session")
            IN  /\ heap' = [heap EXCEPT ![o] = heap.session]
                /\ req' = [NoReq EXCEPT !.op = "n_1_analysis", !.temp = temp,
                                        !.wind = wind, !.load_mult = load_mult]
                /\ loc' = [NoLoc EXCEPT !.orig = o]
                /\ SimCall(o, "n1_baseline")
                /\ resp' = NoResp
    /\ UNCHANGED <<gaVars, master_df, toggles>>

\* Lines 467-472.
n1_baseline ==
    /\ pc = "n1_baseline"
    /\ IF results.is_none
       THEN /\ resp' = [code |-> 500, kind |-> "Baseline calculation failed"]
            /\ pc' = "idle"
            /\ heap' = Release(heap)
            /\ req' = NoReq /\ sim' = SimIdle /\ results' = NoneResult
            /\ loc' = NoLoc
       ELSE /\ loc' = [loc EXCEPT !.baseline = results.report.failure_count,
                                  !.k = 1]
            /\ pc' = "n1_loop"
            /\ UNCHANGED <<heap, req, sim, results, resp>>
    /\ UNCHANGED <<gaVars, master_df, toggles>>

\* contingency_results.sort(key=failures_caused, reverse=True): stable.
RECURSIVE InsertByImpact(_, _)
InsertByImpact(sorted, x) ==
    IF sorted = <<>> THEN <<x>>
    ELSE IF x.failures_caused > Head(sorted).failures_caused THEN <<x>> \o sorted
    ELSE <<Head(sorted)>> \o InsertByImpact(Tail(sorted), x)

RECURSIVE SortByImpact(_)
SortByImpact(s) ==
    IF s = <<>> THEN <<>>
    ELSE InsertByImpact(SortByImpact(SubSeq(s, 1, Len(s) - 1)), s[Len(s)])

\* contingency_results[:5]
\* No cut after the sort.
NoCut(s) == s

Top5(s) == SubSeq(s, 1, IF Len(s) < 5 THEN Len(s) ELSE 5)

\* Lines 475-488 for one line_to_fail, and lines 498-501 after the last.
n1_loop ==
    /\ pc = "n1_loop"
    /\ IF loc.k > Len(master_df.rows)
       THEN /\ resp' = [code |-> 200, kind |-> "contingencies",
                        list |-> Top5(SortByImpact(loc.acc))]
            /\ pc' = "idle"
            /\ heap' = Release(heap)
            /\ req' = NoReq /\ sim' = SimIdle /\ results' = NoneResult
            /\ loc' = NoLoc
       ELSE LET line_to_fail == master_df.rows[loc.k].name
            IN  IF line_to_fail \in heap[loc.orig]
                THEN /\ loc' = [loc EXCEPT !.k = @ + 1]
                     /\ UNCHANGED <<heap, pc, req, sim, results, resp>>
                ELSE LET c == NewSet("cont", loc.orig)
                     IN  /\ heap' = [heap EXCEPT ![c] = heap[loc.orig] \cup {line_to_fail}]
                         /\ loc' = [loc EXCEPT !.cont = c]
                         /\ SimCall(c, "n1_collect")
                         /\ UNCHANGED <<req, resp>>
    /\ UNCHANGED <<gaVars, master_df, toggles>>

\* failures_caused of lines 491-496.
FailuresCaused(contingency_failure_count, baseline_failure_count) ==
    Max(0, contingency_failure_count - baseline_failure_count)

\* Lines 490-496.
n1_collect ==
    /\ pc = "n1_collect"
    /\ loc' = [loc EXCEPT
          !.k = @ + 1,
          !.acc = IF results.is_none THEN @
                  ELSE Append(@, [line_name |-> master_df.rows[loc.k].name,
                                  failures_caused |->
                                      FailuresCaused(results.report.failure_count,
                                                     loc.baseline)])]
    /\ pc' = "n1_loop"
    /\ UNCHANGED <<gaVars, master_df, heap, req, sim, results, resp, toggles>>

(***************************************************************************)
(* cascade_round (lines 503-553)                                           *)
(***************************************************************************)
\* bad: a field that float()/int()/set() rejects.
cascade_round(temp, wind, load_mult, n, offl, bad) ==
    /\ pc = "idle"
    /\ IF bad
       THEN /\ resp' = InvalidInput
            /\ UNCHANGED <<heap, pc, req, sim, results, loc>>
       ELSE LET o == SetFromList("orig")
            IN  /\ heap' = [heap EXCEPT ![o] = offl]
                /\ req' = [NoReq EXCEPT !.op = "cascade_round", !.temp = temp,
                                        !.wind = wind, !.load_mult = load_mult,
                                        !.n = n]
                /\ loc' = [NoLoc EXCEPT !.orig = o]
                /\ SimCall(o, "cr_respond")
                /\ resp' = NoResp
    /\ UNCHANGED <<gaVars, master_df, toggles>>

\* Lines 526-553.
cr_respond ==
    /\ pc = "cr_respond"
    /\ resp' = IF results.is_none THEN NotLoaded
               ELSE GridResponse(results, req.n, heap[loc.orig])
    /\ pc' = "idle"
    /\ heap' = Release(heap)
    /\ req' = NoReq /\ sim' = SimIdle /\ results' = NoneResult /\ loc' = NoLoc
    /\ UNCHANGED <<gaVars, master_df, toggles>>

(***************************************************************************)
(* RemediationOptimizer: evaluate_remediation (lines 46-84)                *)
(***************************************************************************)
\* RemedialAction(action_type, value)
Reroute(nm) == [action_type |-> "REROUTE", value |-> nm]
Curtail == [action_type |-> "CURTAIL", value |-> LOAD_CURTAIL_STEP]

\* ALL_LINE_NAMES, filled by load_master_data (line 154).
ALL_LINE_NAMES == NameSet(master_df)

\* What create_random_action can return (lines 92-97).
RandomActions == {Reroute(nm) : nm \in ALL_LINE_NAMES} \cup {Curtail}

\* A simulated set that leaves the candidate's reroutes out.
BaselineSetOnly(individual, s) == s

\* sim_offline_set after the loop of lines 60-68, started from s.
RECURSIVE SimOfflineSet(_, _)
SimOfflineSet(individual, s) ==
    IF individual = <<>> THEN s
    ELSE SimOfflineSet(Tail(individual),
                       IF Head(individual).action_type = "REROUTE"
                       THEN s \cup {Head(individual).value} ELSE s)

\* A cost that charges every reroute gene, redundant or not.
ChargeEvery(individual, s) ==
    LET IsReroute(a) == a.action_type = "REROUTE"
        IsCurtail(a) == a.action_type = "CURTAIL"
    IN  COST_REROUTE_LINE * Len(SelectSeq(individual, IsReroute))
        + COST_LOAD_CURTAIL * Len(SelectSeq(individual, IsCurtail))

\* current_cost after the loop of lines 60-68, s the set so far.
RECURSIVE CurrentCost(_, _)
CurrentCost(individual, s) ==
    IF individual = <<>> THEN 0
    ELSE LET a == Head(individual)
         IN  IF a.action_type = "REROUTE"
             THEN (IF a.value \notin s THEN COST_REROUTE_LINE ELSE 0)
                  + CurrentCost(Tail(individual), s \cup {a.value})
             ELSE COST_LOAD_CURTAIL + CurrentCost(Tail(individual), s)

\* sim_load_mult after the loop of lines 60-68.
RECURSIVE SimLoadMult(_, _)
SimLoadMult(individual, load) ==
    IF individual = <<>> THEN load
    ELSE SimLoadMult(Tail(individual),
                     IF Head(individual).action_type = "CURTAIL"
                     THEN RSub(load, Head(individual).value) ELSE load)

\* A score that weights a failure by 1,000.
ScoreLightWeight(sim_results, current_cost) ==
    (IF ~sim_results.is_none THEN sim_results.report.failure_count ELSE 999)
        * 1000 + current_cost

\* Lines 77-84: the weighted score.
Score(sim_results, current_cost) ==
    (IF ~sim_results.is_none THEN sim_results.report.failure_count ELSE 999)
        * 1000000 + current_cost

\* One call of the evaluator ev (the bound baseline_* arguments) on heap h:
\* the score, and the heap with sim_offline_set built.  The simulator runs
\* on a set no other request can reach, so its reads are one step here.
evaluate_remediation(individual, ev, h) ==
    LET c  == NewSet("cont", ev.base)
        h1 == [h EXCEPT ![c] = h[ev.base]]
        h2 == [h1 EXCEPT ![c] = SimOfflineSet(individual, h1[c])]
        sim_results == PhysicsState(master_df, ev.temp, ev.wind,
                                    SimLoadMult(individual, ev.load), h2[c])
    IN  [score |-> Score(sim_results, CurrentCost(individual, h1[c])),
         heap |-> h2]

(***************************************************************************)
(* The search: toolbox.population and algorithms.eaSimple (lines 594-600)  *)
(* with tools.initRepeat, selTournament, cxOnePoint, mutReplaceAction and  *)
(* tools.HallOfFame(1).  Random draws are nondeterministic choices; every  *)
(* outcome with positive probability is a choice.                          *)
(***************************************************************************)
\* Bound on the population size (n=50 at line 594).
MaxPop == 2
\* Bound on the number of generations (ngen=30 at line 599).
MaxGen == 1
\* Bound on the length of an individual (1..MAX_ACTIONS_PER_SOLUTION).
MaxLen == 2

Min(a, b) == IF a <= b THEN a ELSE b

\* An individual with an invalid fitness (fit = -1).
Individual(genes) == [genes |-> genes, fit |-> -1]

\* Candidates of one action fewer than asked for.
OneActionFewer(n) == {Individual(g) : g \in [1..(n - 1) -> RandomActions]}

\* tools.initRepeat(creator.Individual, toolbox.attr_action, n): every
\* sequence of n random actions.
Individuals(n) == {Individual(g) : g \in [1..n -> RandomActions]}

NoEvaluator == [registered |-> FALSE, temp |-> 0, wind |-> 0, load |-> RZero,
                base |-> "None"]

\* Evaluate the individuals with an invalid fitness, in order (the
\* invalid_ind / toolbox.map / zip lines of eaSimple).
RECURSIVE EvalInvalid(_, _, _, _)
EvalInvalid(p, i, ev, h) ==
    IF i > Len(p) THEN [pop |-> p, heap |-> h, n |-> 0]
    ELSE IF p[i].fit # -1 THEN EvalInvalid(p, i + 1, ev, h)
    ELSE LET e == evaluate_remediation(p[i].genes, ev, h)
             r == EvalInvalid([p EXCEPT ![i].fit = e.score], i + 1, ev, e.heap)
         IN  [r EXCEPT !.n = @ + 1]

\* A hall of fame that keeps the last individual of the latest population.
KeepLatest(h, p, i) == <<p[Len(p)]>>

\* HallOfFame(1).update(population): a strictly better individual that is
\* not equal to the one kept replaces it.
RECURSIVE HofUpdate(_, _, _)
HofUpdate(h, p, i) ==
    IF i > Len(p) THEN h
    ELSE IF h = <<>> THEN HofUpdate(<<p[1]>>, p, i + 1)
    ELSE IF p[i].fit < h[1].fit /\ p[i].genes # h[1].genes
         THEN HofUpdate(<<p[i]>>, p, i + 1)
         ELSE HofUpdate(h, p, i + 1)

\* tools.cxOnePoint at cxpoint: the tails are swapped, both fitnesses
\* are deleted.
CxOnePoint(a, b, cxpoint) ==
    << Individual(SubSeq(a.genes, 1, cxpoint)
                    \o SubSeq(b.genes, cxpoint + 1, Len(b.genes))),
       Individual(SubSeq(b.genes, 1, cxpoint)
                    \o SubSeq(a.genes, cxpoint + 1, Len(a.genes))) >>

\* The mating loop of varAnd for cx, which gives each pair (2j-1, 2j) its
\* crossover point, 0 for no crossover.
Mated(p, cx) ==
    [i \in 1..Len(p) |->
        LET j == (i + 1) \div 2
        IN  IF j \in DOMAIN cx /\ cx[j] > 0
            THEN CxOnePoint(p[2 * j - 1], p[2 * j], cx[j])[2 - (i % 2)]
            ELSE p[i]]

(***************************************************************************)
(* find_remediation (lines 555-632)                                        *)
(***************************************************************************)
\* Every reroute gene kept.
EveryReroute(individual, baseline_offline_lines, seen_reroutes) ==
    LET IsReroute(a) == a.action_type = "REROUTE"
    IN  SelectSeq(individual, IsReroute)

\* Lines 606-617: the rerouted lines kept, in order.
RECURSIVE FinalReroutes(_, _, _)
FinalReroutes(individual, baseline_offline_lines, seen_reroutes) ==
    IF individual = <<>> THEN <<>>
    ELSE LET a == Head(individual)
         IN  IF /\ a.action_type = "REROUTE"
                /\ a.value \notin baseline_offline_lines
                /\ a.value \notin seen_reroutes
             THEN <<a>> \o FinalReroutes(Tail(individual), baseline_offline_lines,
                                         seen_reroutes \cup {a.value})
             ELSE FinalReroutes(Tail(individual), baseline_offline_lines,
                                seen_reroutes)

\* total_curtail of lines 609-617.
RECURSIVE TotalCurtail(_)
TotalCurtail(individual) ==
    IF individual = <<>> THEN RZero
    ELSE RAdd(IF Head(individual).action_type = "CURTAIL"
              THEN Head(individual).value ELSE RZero,
              TotalCurtail(Tail(individual)))

\* final_plan_actions of lines 607-621.
FinalPlanActions(individual, baseline_offline_lines) ==
    FinalReroutes(individual, baseline_offline_lines, {})
        \o (IF RGt(TotalCurtail(individual), RZero)
            THEN <<[action_type |-> "CURTAIL", value |-> TotalCurtail(individual)]>>
            ELSE <<>>)

\* RemedialAction.to_dict without the display string 'desc'.
to_dict(a) == [type |-> a.action_type, value |-> a.value]

\* The response of lines 579-584.
NoActionResponse ==
    [code |-> 200, kind |-> "remediation",
     baseline_failures |-> 0, remediated_failures |-> 0, cost |-> 0,
     plan |-> <<[type |-> "INFO", value |-> ""]>>]

\* A test that never skips the search.
NeverSkip(baseline_failures) == baseline_failures < 0

\* The test of line 578.
NoSearchNeeded(baseline_failures) == baseline_failures = 0

\* All of the search's locals, dropped when the handler returns.
GAReset ==
    /\ pop' = <<>>
    /\ hof' = <<>>
    /\ gen' = 0
    /\ nevals' = 0

Done(r) ==
    /\ resp' = r
    /\ pc' = "idle"
    /\ heap' = Release(heap)
    /\ req' = NoReq /\ sim' = SimIdle /\ results' = NoneResult /\ loc' = NoLoc
    /\ GAReset

\* Lines 561-575.
find_remediation(temp, wind, load_mult, base, bad) ==
    /\ pc = "idle"
    /\ IF bad
       THEN /\ resp' = InvalidInput
            /\ UNCHANGED <<heap, pc, req, sim, results, loc>>
       ELSE LET o == SetFromList("orig")
            IN  /\ heap' = [heap EXCEPT ![o] = base]
                /\ req' = [NoReq EXCEPT !.op = "find_remediation", !.temp = temp,
                                        !.wind = wind, !.load_mult = load_mult]
                /\ loc' = [NoLoc EXCEPT !.orig = o]
                /\ SimCall(o, "fr_baseline")
                /\ resp' = NoResp
    /\ UNCHANGED <<gaVars, master_df, toggles>>

\* Lines 576-591.
fr_baseline ==
    /\ pc = "fr_baseline"
    /\ IF results.is_none
       \* baseline_results['report'] on None raises TypeError
       THEN Done(Unhandled) /\ UNCHANGED toolbox_evaluate
       ELSE IF NoSearchNeeded(results.report.failure_count)
       THEN Done(NoActionResponse) /\ UNCHANGED toolbox_evaluate
       ELSE /\ toolbox_evaluate' =
                   [registered |-> TRUE, temp |-> req.temp, wind |-> req.wind,
                    load |-> req.load_mult, base |-> loc.orig]
            /\ loc' = [loc EXCEPT !.baseline = results.report.failure_count]
            /\ pc' = "fr_population"
            /\ UNCHANGED <<heap, req, sim, results, resp, pop, hof, gen, nevals>>
    /\ UNCHANGED <<master_df, toggles, ind_len>>

\* Lines 594-595: toolbox.population(n), an empty hall of fame.
fr_population ==
    /\ pc = "fr_population"
    /\ pop' \in [1..MaxPop -> Individuals(ind_len)]
    /\ hof' = <<>>
    /\ pc' = "ea_evaluate"
    /\ UNCHANGED <<master_df, heap, req, sim, results, loc, resp, toggles,
                   ind_len, toolbox_evaluate, gen, nevals>>

\* eaSimple: evaluate the invalid individuals with the evaluator registered
\* now, update the hall of fame, then the next generation or the end.
ea_evaluate ==
    /\ pc = "ea_evaluate"
    /\ LET e == EvalInvalid(pop, 1, toolbox_evaluate, heap)
       IN  /\ pop' = e.pop
           /\ heap' = e.heap
           /\ nevals' = nevals + e.n
           /\ hof' = HofUpdate(hof, e.pop, 1)
    /\ pc' = IF gen < MaxGen THEN "ea_select" ELSE "fr_finish"
    /\ UNCHANGED <<master_df, req, sim, results, loc, resp, toggles,
                   ind_len, toolbox_evaluate, gen>>

\* toolbox.select: selTournament(population, len(population), tournsize=3).
\* A tournament whose three aspirants are the same individual selects it,
\* so every individual can be selected at every position.
ea_select ==
    /\ pc = "ea_select"
    /\ \E sel \in [1..Len(pop) -> 1..Len(pop)] :
          pop' = [i \in 1..Len(pop) |-> pop[sel[i]]]
    /\ gen' = gen + 1
    /\ pc' = "ea_mate"
    /\ UNCHANGED <<master_df, heap, req, sim, results, loc, resp, toggles,
                   ind_len, toolbox_evaluate, hof, nevals>>

\* varAnd, first loop: each pair mates with probability cxpb.  cxOnePoint
\* draws random.randint(1, size - 1), which raises for size = 1.
ea_mate ==
    /\ pc = "ea_mate"
    /\ \E cx \in [1..(Len(pop) \div 2) -> 0..Max(ind_len - 1, 1)] :
          IF ind_len = 1 /\ \E j \in DOMAIN cx : cx[j] > 0
          THEN Done(Unhandled)
          ELSE /\ pop' = Mated(pop, cx)
               /\ pc' = "ea_mutate"
               /\ UNCHANGED <<heap, req, sim, results, loc, resp, hof, gen, nevals>>
    /\ UNCHANGED <<master_df, toggles, ind_len, toolbox_evaluate>>

\* varAnd, second loop: each individual is mutated with probability mutpb;
\* mutReplaceAction replaces each gene with probability indpb by a random
\* action, and the fitness is deleted.  mut[i] is 0 (not mutated) or the
\* individual after the mutation.
ea_mutate ==
    /\ pc = "ea_mutate"
    /\ \E mut \in [1..Len(pop) -> {Individual(<<>>)} \cup Individuals(ind_len)] :
          pop' = [i \in 1..Len(pop) |->
                     IF mut[i].genes = <<>> THEN pop[i] ELSE mut[i]]
    /\ pc' = "ea_evaluate"
    /\ UNCHANGED <<master_df, heap, req, sim, results, loc, resp, toggles,
                   ind_len, toolbox_evaluate, hof, gen, nevals>>

\* Lines 602-632.
fr_finish ==
    /\ pc = "fr_finish"
    /\ LET best_individual == hof[1]
           best_fitness_score == best_individual.fit
           final_plan_actions ==
               FinalPlanActions(best_individual.genes, heap[loc.orig])
       IN  Done([code |-> 200, kind |-> "remediation",
                 baseline_failures |-> loc.baseline,
                 remediated_failures |-> best_fitness_score \div 1000000,
                 cost |-> best_fitness_score % 1000000,
                 plan |-> [i \in 1..Len(final_plan_actions) |->
                              to_dict(final_plan_actions[i])]])
    /\ UNCHANGED <<master_df, toggles, ind_len, toolbox_evaluate>>

\* One call evaluate_remediation(individual, temp, wind, load, base) from
\* outside a search.  It has no except clause: a simulator that raises ends
\* the call with that exception and no fitness is assigned.
evaluate_call(individual, temp, wind, load, base) ==
    /\ pc = "idle"
    /\ LET o  == SetFromList("orig")
           h  == [heap EXCEPT ![o] = base]
           ev == [registered |-> TRUE, temp |-> temp, wind |-> wind,
                  load |-> load, base |-> o]
       IN  /\ req' = [NoReq EXCEPT !.op = "evaluate", !.temp = temp,
                                   !.wind = wind, !.load_mult = load]
           /\ loc' = [NoLoc EXCEPT !.orig = o]
           /\ IF SimulatorFaults(master_df)
              THEN /\ pop' = <<Individual(individual)>>
                   /\ resp' = Unhandled
                   /\ heap' = [h EXCEPT !.cont = SimOfflineSet(individual, base)]
              ELSE LET e == evaluate_remediation(individual, ev, h)
                   IN  /\ pop' = <<[genes |-> individual, fit |-> e.score]>>
                       /\ resp' = NoResp
                       /\ heap' = e.heap
    /\ UNCHANGED <<master_df, pc, sim, results, toggles, ind_len,
                   toolbox_evaluate, hof, gen, nevals>>

\* Lines 561-591 of a second find_remediation request, served by another
\* thread while the first is anywhere.  Its baseline run reads only its own
\* set, so these lines are one step; with a failure in its baseline it
\* registers its evaluator on the shared toolbox.  The rest of that request
\* (594-632) works on its own locals and writes nothing shared.
overlapping_find_remediation(temp, wind, load_mult, base) ==
    /\ master_df.loaded
    /\ LET o == SetFromList("other")
           baseline_failures ==
               PhysicsState(master_df, temp, wind, load_mult, base).report.failure_count
       IN  /\ ~NoSearchNeeded(baseline_failures)
           /\ heap' = [heap EXCEPT ![o] = base]
           /\ toolbox_evaluate' =
                  [registered |-> TRUE, temp |-> temp, wind |-> wind,
                   load |-> load_mult, base |-> o]
    /\ UNCHANGED <<master_df, pc, req, sim, results, loc, resp, toggles,
                   ind_len, pop, hof, gen, nevals>>

(***************************************************************************)
(* The session: one request in flight, toggles in between                  *)
(***************************************************************************)
\* Bound on the length of a posted forecast.
MaxDays == 2
\* Bound on the number of toggle_line requests in a behaviour.
MaxToggles == 2

Temps == {25, 40, 50}
Winds == {WIND_INIT}
Loads == {LOAD_INIT, PREDICT_LOAD}
TopNs == {1, 5}
ToggleNames == LineNames \cup {UnknownName, ""}

DayInputs ==
    {Day(0, "ok", t, w) : t \in Temps, w \in Winds}
        \cup {Day(0, "no_day", TEMP_INIT, WIND_INIT),
              Day(0, "bad_field", TEMP_INIT, WIND_INIT)}

\* Forecasts of 1..MaxDays days, numbered in order.
Forecasts ==
    UNION {{[i \in 1..n |-> [f[i] EXCEPT !.day = i]] : f \in [1..n -> DayInputs]} :
             n \in 1..MaxDays}

\* The module's globals after import, before load_master_data.
Fresh ==
    /\ heap = [session |-> {}, orig |-> {}, cont |-> {}, other |-> {}]
    /\ pc = "idle"
    /\ req = NoReq
    /\ sim = SimIdle
    /\ results = NoneResult
    /\ loc = NoLoc
    /\ resp = NoResp
    /\ toggles = 0
    /\ ind_len \in 1..Min(MAX_ACTIONS_PER_SOLUTION, MaxLen)
    /\ toolbox_evaluate = NoEvaluator
    /\ pop = <<>>
    /\ hof = <<>>
    /\ gen = 0
    /\ nevals = 0

\* load_master_data has run: it failed (None) or it loaded the frame.
Init == master_df \in {NoneDF, GridDF} /\ Fresh

Toggle ==
    /\ toggles < MaxToggles
    /\ \E line_name \in ToggleNames : toggle_line(line_name)

SimStep == SimActive \/ SimOffline \/ SimLoop

GridStatus ==
    \/ \E t \in Temps, w \in Winds, l \in Loads, n \in TopNs : grid_status(t, w, l, n)
    \/ gs_respond

Predict ==
    \/ \E days \in Forecasts : predict(days)
    \/ pr_day
    \/ pr_collect

N1Analysis ==
    \/ \E t \in Temps, w \in Winds, l \in Loads : n_1_analysis(t, w, l)
    \/ n1_baseline
    \/ n1_loop
    \/ n1_collect

CascadeRound ==
    \/ \E t \in Temps, w \in Winds, l \in Loads, n \in TopNs,
          offl \in SUBSET LineNames, bad \in BOOLEAN :
            cascade_round(t, w, l, n, offl, bad)
    \/ cr_respond

\* Requests to find_remediation: default ambient, a baseline without and
\* one with a failure.
Baselines == {{}, {"L2"}}

FindRemediation ==
    \/ \E base \in Baselines, bad \in BOOLEAN :
          find_remediation(TEMP_INIT, WIND_INIT, LOAD_INIT, base, bad)
    \/ fr_baseline
    \/ fr_population
    \/ ea_evaluate
    \/ ea_select
    \/ ea_mate
    \/ ea_mutate
    \/ fr_finish

Next == Toggle \/ SimStep \/ GridStatus \/ Predict \/ N1Analysis \/ CascadeRound

\* The import drew individuals of one action.
InitOne == Init /\ ind_len = 1

\* The session without the search.
Spec == InitOne /\ [][Next]_vars

\* find_remediation alone: no toggles, no other request.
NextGA == SimStep \/ FindRemediation
SpecGA == Init /\ [][NextGA]_vars

\* find_remediation on the six-line frame, for a baseline with one failure
\* to which the loss of a further line adds another.
FindRemediationWide ==
    \/ find_remediation(TEMP_INIT, WIND_INIT, PREDICT_LOAD, {"L1"}, FALSE)
    \/ fr_baseline
    \/ fr_population
    \/ ea_evaluate
    \/ ea_select
    \/ ea_mate
    \/ ea_mutate
    \/ fr_finish

InitWide == master_df = WideDF /\ Fresh /\ ind_len = 1
NextGAWide == SimStep \/ FindRemediationWide
SpecGAWide == InitWide /\ [][NextGAWide]_vars

\* cascade_round on the frame with reversed flows.
InitReverse == master_df = ReverseDF /\ Fresh /\ ind_len = 1
NextReverse == SimStep \/ CascadeRound
SpecReverse == InitReverse /\ [][NextReverse]_vars

\* The fitness function on its own: every candidate of the length drawn at
\* import, on a frame that failed to load, loaded, or loaded in part.
EvaluateCall ==
    \E g \in [1..ind_len -> {Reroute(nm) : nm \in LineNames} \cup {Curtail}],
       t \in Temps, l \in Loads, base \in Baselines :
          evaluate_call(g, t, WIND_INIT, l, base)

InitEval == master_df \in {NoneDF, GridDF, PartialDF} /\ Fresh
NextEval == EvaluateCall
SpecEval == InitEval /\ [][NextEval]_vars

\* find_remediation with a second find_remediation request overlapping it.
OtherBaselines == {{"L1"}, {"L2"}}

OverlappingFindRemediation ==
    \E base \in OtherBaselines :
        overlapping_find_remediation(TEMP_INIT, WIND_INIT, LOAD_INIT, base)

InitOverlap == master_df = GridDF /\ Fresh /\ ind_len = 1
NextOverlap == SimStep \/ FindRemediation \/ OverlappingFindRemediation
SpecOverlap == InitOverlap /\ [][NextOverlap]_vars

InitN1 == master_df = WideDF /\ Fresh /\ ind_len = 1
NextN1 == Toggle \/ SimStep \/ N1Analysis
SpecN1 == InitN1 /\ [][NextN1]_vars

\* Every request, with toggles in between.
NextAll == Next \/ FindRemediation
SpecAll == InitOne /\ [][NextAll]_vars

(***************************************************************************)
(* Properties                                                              *)
(***************************************************************************)
SimPcs == {"sim_active", "sim_offline", "sim_loop"}

\* A handler holds the report of the run that has just returned, together
\* with what that run's reads returned.
HasReport ==
    /\ pc \notin SimPcs \cup {"idle"}
    /\ ~results.is_none
    /\ Len(sim.marks) = Len(master_df.rows)

\* C1: the session offline set is changed by toggle_line only: every step
\* of grid_status, cascade_round, n_1_analysis, find_remediation and
\* predict, and of every simulator run they make, leaves it as it was.
C1_OnlyToggleChangesSession ==
    [][toggles' = toggles => heap'.session = heap.session]_vars

\* n_1_analysis has returned a list, having run on copies of a session set
\* that is not empty.
C1_Witness ==
    /\ resp.kind = "contingencies"
    /\ Len(resp.list) > 0
    /\ offline_lines # {}

C3_UnknownNameRejected ==
    /\ offline_lines \subseteq LineNames
    /\ resp.kind = "toggle" => resp.line_name \in LineNames

\* C4: a successful toggle_line(x) changes the session set by exactly {x},
\* a second toggle of x would restore the set, and the status returned is
\* 'offline' iff x is in the set afterwards.
C4_ToggleFlipsExactlyOne ==
    [][(toggles' = toggles + 1 /\ resp'.code = 200) =>
          LET x == resp'.line_name
              before == heap.session
              after == heap'.session
          IN  /\ (before \ after) \cup (after \ before) = {x}
              /\ ToggledSet(after, x) = before
              /\ resp'.status = "offline" <=> x \in after
              /\ resp'.offline_lines = after]_vars

\* The second of two toggles of one line: it is online again and the set
\* is the empty one the session started with.
C4_Witness ==
    /\ toggles = 2
    /\ resp.kind = "toggle"
    /\ resp.status = "online"
    /\ resp.line_name \in LineNames
    /\ offline_lines = {}

\* C5: all reads a grid_status, predict or n_1_analysis call makes of the
\* offline set return the same set: the active partition, the offline
\* partition with its totals, the per-line check, and the list returned.
C5_OneSnapshot ==
    /\ pc \in {"sim_loop"} \cup {"gs_respond", "pr_collect", "n1_baseline", "n1_collect"}
          => /\ sim.seenOffline = sim.seenActive
             /\ \A i \in 1..Len(sim.marks) :
                   sim.marks[i] = (master_df.rows[i].name \in sim.seenActive)
    /\ (pc = "gs_respond" /\ master_df.loaded) => offline_lines = sim.seenActive

\* C6: every line of every report has one of the five statuses: offline
\* when the run found it in the offline set, error when it is active and
\* its rating faults, else overloaded iff loading > 0, stressed iff
\* -15 < loading <= 0, ok iff loading <= -15.
Statuses == {"ok", "stressed", "overloaded", "offline", "error"}

C6_StatusClassification ==
    HasReport =>
        /\ Len(results.line_results) = Len(master_df.rows)
        /\ \A i \in 1..Len(results.line_results) :
              LET l == results.line_results[i]
                  off == sim.marks[i]
                  fault == steady_state_thermal_rating(master_df.rows[i],
                                                       req.temp, req.wind).fault
              IN  /\ l.name = master_df.rows[i].name
                  /\ l.initial_status \in Statuses
                  /\ off => l.initial_status = "offline"
                  /\ (~off /\ fault) => l.initial_status = "error"
                  /\ (~off /\ ~fault) =>
                        /\ l.initial_status = "overloaded" <=> RGt(l.loading, RZero)
                        /\ l.initial_status = "stressed" <=>
                              (RGt(l.loading, RInt(-15)) /\ RLe(l.loading, RZero))
                        /\ l.initial_status = "ok" <=> RLe(l.loading, RInt(-15))

\* One report with an offline, an error and an overloaded line.
C6_Witness ==
    /\ HasReport
    /\ {"offline", "error", "overloaded"} \subseteq
          {results.line_results[i].initial_status :
               i \in 1..Len(results.line_results)}

\* C7: an active line whose MVA rating is 0 is reported with a loading
\* percent of exactly 0, whatever its load.
C7_ZeroRatingZeroLoading ==
    HasReport =>
        \A i \in 1..Len(results.line_results) :
            LET l == results.line_results[i]
            IN  (/\ l.initial_status \notin {"offline", "error"}
                 /\ l.rating_mva = RZero) => l.loading = RZero

\* An active line carrying load whose rating is 0.
C7_Witness ==
    /\ HasReport
    /\ \E i \in 1..Len(results.line_results) :
          LET l == results.line_results[i]
          IN  /\ l.initial_status \notin {"offline", "error"}
              /\ l.rating_mva = RZero
              /\ RGt(l.current_mva, RZero)
              /\ l.loading = RZero

\* C8: n_1_analysis returns at most 5 entries, each with an impact >= 0,
\* in non-increasing order of impact, none naming a line that is offline
\* in the baseline.
C8_ContingencyList ==
    [][(pc = "n1_loop" /\ pc' = "idle") =>
          LET l == resp'.list
          IN  /\ Len(l) <= 5
              /\ \A i \in 1..Len(l) :
                    /\ l[i].failures_caused >= 0
                    /\ l[i].line_name \notin heap[loc.orig]
              /\ \A i \in 1..Len(l), j \in 1..Len(l) :
                    i < j => l[i].failures_caused >= l[j].failures_caused]_vars

\* Five entries returned, the first with a larger impact than the last.
C8_Witness ==
    /\ resp.kind = "contingencies"
    /\ Len(resp.list) = 5
    /\ resp.list[1].failures_caused > resp.list[5].failures_caused

\* C9: when the baseline run of find_remediation has no failure, the call
\* returns baseline failures 0, remediated failures 0, cost 0 and a plan of
\* one informational item, with no population created and no evaluation
\* or generation run.
C9_NoFailureNoSearch ==
    [][(/\ pc = "fr_baseline"
        /\ ~results.is_none
        /\ results.report.failure_count = 0
        /\ pc' # pc) =>
          /\ pc' = "idle"
          /\ resp'.code = 200
          /\ resp'.baseline_failures = 0
          /\ resp'.remediated_failures = 0
          /\ resp'.cost = 0
          /\ Len(resp'.plan) = 1
          /\ resp'.plan[1].type = "INFO"
          /\ pop' = <<>> /\ hof' = <<>>
          /\ nevals' = 0 /\ gen' = 0
          /\ toolbox_evaluate' = toolbox_evaluate]_vars

\* The informational answer, given with no evaluator ever registered.
C9_Witness ==
    /\ resp.kind = "remediation"
    /\ resp.baseline_failures = 0
    /\ resp.plan[1].type = "INFO"
    /\ ~toolbox_evaluate.registered
    /\ pop = <<>> /\ nevals = 0

\* The plan made from candidate cand for the baseline set base.
PlanOK(cand, base, plan) ==
    LET R == {i \in 1..Len(plan) : plan[i].type = "REROUTE"}
        C == {i \in 1..Len(plan) : plan[i].type = "CURTAIL"}
        curt == {i \in 1..Len(cand) : cand[i].action_type = "CURTAIL"}
        first == {i \in 1..Len(cand) :
                    /\ cand[i].action_type = "REROUTE"
                    /\ cand[i].value \notin base
                    /\ \A j \in 1..(i - 1) :
                          ~(/\ cand[j].action_type = "REROUTE"
                            /\ cand[j].value = cand[i].value)}
        Rank(S, i) == Cardinality({j \in S : j <= i})
    IN  /\ \A i \in R, j \in R : i # j => plan[i].value # plan[j].value
        /\ \A i \in R : plan[i].value \notin base
        /\ Cardinality(C) <= 1
        /\ (C # {}) <=> (curt # {})
        /\ \A i \in C :
              plan[i].value = RMul(RInt(Cardinality(curt)), LOAD_CURTAIL_STEP)
        /\ Cardinality(R) = Cardinality(first)
        /\ \A i \in R : \E k \in first :
              /\ Rank(first, k) = Rank(R, i)
              /\ plan[i].value = cand[k].value

\* C10: for every best candidate of the search the final plan has no two
\* reroutes of one line, no reroute of a line of the baseline offline set,
\* at most one curtailment, present iff the candidate has a curtail gene
\* and worth the sum of its curtail steps; the reroutes kept are the first
\* occurrences, in the candidate's order.
C10_PlanDeduplicated ==
    [][(pc = "fr_finish" /\ pc' = "idle") =>
          PlanOK(hof[1].genes, heap[loc.orig], resp'.plan)]_vars

\* A plan whose one curtailment merges two curtail genes.
C10_Witness ==
    /\ resp.kind = "remediation"
    /\ resp.baseline_failures > 0
    /\ \E i \in 1..Len(resp.plan) :
          /\ resp.plan[i].type = "CURTAIL"
          /\ resp.plan[i].value = RMul(RInt(2), LOAD_CURTAIL_STEP)

\* C11: for a baseline with at least one failure, whatever the search
\* draws, find_remediation returns remediated_failures <= baseline_failures.
C11_NoWorseThanBaseline ==
    resp.kind = "remediation" =>
        resp.remediated_failures <= resp.baseline_failures

\* C12: the failure count and the cost returned are the best score
\* divided by 1,000,000 (floor) and its remainder, and the cost is that of
\* the returned plan: COST_REROUTE_LINE for each of its reroutes plus
\* COST_LOAD_CURTAIL for each curtail step merged into its curtailment.
C12_ScoreAndPlanCost ==
    [][(pc = "fr_finish" /\ pc' = "idle") =>
          LET score == hof[1].fit
              plan == resp'.plan
              R == {i \in 1..Len(plan) : plan[i].type = "REROUTE"}
              C == {i \in 1..Len(plan) : plan[i].type = "CURTAIL"}
              Steps(i) == RDiv(plan[i].value, LOAD_CURTAIL_STEP)
          IN  /\ score >= 0
              /\ resp'.remediated_failures * 1000000 + resp'.cost = score
              /\ resp'.cost \in 0..999999
              /\ \A i \in C : Steps(i)[2] = 1
              /\ \E k \in 0..MAX_ACTIONS_PER_SOLUTION :
                    /\ \A i \in C : Steps(i) = RInt(k)
                    /\ C = {} => k = 0
                    /\ resp'.cost = COST_REROUTE_LINE * Cardinality(R)
                                      + COST_LOAD_CURTAIL * k]_vars

\* A plan that drops a redundant reroute and costs one reroute only.
C12_Witness ==
    /\ resp.kind = "remediation"
    /\ resp.baseline_failures > 0
    /\ ind_len = 2
    /\ Len(resp.plan) = 1
    /\ resp.plan[1].type = "REROUTE"
    /\ resp.cost = COST_REROUTE_LINE

\* C13: predict returns one entry per input day, in input order; a day
\* whose processing faults (a missing or non-numeric field, a simulator
\* fault, the frame not loaded) gives an error marker for that day only,
\* and the days after it are still processed.
C13_OneEntryPerDay ==
    /\ resp # Unhandled
    /\ pc = "pr_day" =>
          /\ Len(loc.acc) = loc.k - 1
          /\ \A i \in 1..Len(loc.acc) :
                /\ loc.acc[i].day = req.data[i].day
                /\ loc.acc[i].error <=>
                      (req.data[i].kind # "ok" \/ ~master_df.loaded)
    /\ resp.kind = "predictions" =>
          \A i \in 1..Len(resp.predictions) : resp.predictions[i].day = i

\* C14: with the frame not loaded, grid_status, n_1_analysis, cascade_round
\* and find_remediation answer with the data-not-loaded error (or, for bad
\* parameters, the invalid-parameter error) and fail in no other way.
C14_NotLoadedIndicator ==
    ~master_df.loaded => resp \in {NoResp, NotLoaded, InvalidInput}

\* What grid_status answers for the request r when the session set is S
\* for the whole call.
GridAnswer(r, S) ==
    IF ~master_df.loaded THEN NotLoaded
    ELSE GridResponse(PhysicsState(master_df, r.temp, r.wind, r.load_mult, S),
                      r.n, S)

\* All reads of the run that has returned gave the set S.
ReadsGave(S) ==
    master_df.loaded =>
        /\ sim.seenActive = S
        /\ sim.seenOffline = S
        /\ \A i \in 1..Len(sim.marks) :
              sim.marks[i] = (master_df.rows[i].name \in S)

\* C15: for the same temp, wind, load multiplier and n, cascade_round with
\* the offline set S answers what grid_status answers while the session set
\* is S, whatever the session set is during the cascade_round call.
C15_CascadeAsGrid ==
    [][/\ (pc = "cr_respond" /\ pc' = "idle") =>
             resp' = GridAnswer(req, heap[loc.orig])
       /\ (pc = "gs_respond" /\ pc' = "idle" /\ ReadsGave(heap.session)) =>
             resp' = GridAnswer(req, heap.session)]_vars

\* cascade_round has answered, with a failure, for a set that is not empty
\* while the session set was empty throughout.
C15_Witness ==
    /\ toggles = 0
    /\ resp.kind = "grid"
    /\ resp.offline_lines # {}
    /\ resp.report.failure_count > 0

\* Sum of the loadings of the lines of `lines` whose index is in idx.
RECURSIVE LoadingSum(_, _)
LoadingSum(lines, idx) ==
    IF idx = {} THEN RZero
    ELSE LET i == CHOOSE j \in idx : TRUE
         IN  RAdd(lines[i].loading, LoadingSum(lines, idx \ {i}))

StatusIdx(st) ==
    {i \in 1..Len(results.line_results) :
        results.line_results[i].initial_status = st}

\* C16: a line whose rating computation faults has status error with
\* rating and current load 0, is no failure, and is left out of the stress
\* aggregation: out of the summed overload and out of the active-line
\* count the sum is divided by; every line is still in the report.
C16_ErrorLineExcluded ==
    HasReport =>
        LET lines == results.line_results
            counted == ActiveIdx(master_df, sim.seenActive) \ StatusIdx("error")
            total == LoadingSum(lines, StatusIdx("overloaded"))
        IN  /\ Len(lines) = Len(master_df.rows)
            /\ \A i \in 1..Len(lines) :
                  (/\ ~sim.marks[i]
                   /\ steady_state_thermal_rating(master_df.rows[i],
                                                  req.temp, req.wind).fault)
                  => /\ lines[i].initial_status = "error"
                     /\ lines[i].rating_mva = RZero
                     /\ lines[i].current_mva = RZero
                     /\ \A j \in 1..Len(results.report.top_failures) :
                           results.report.top_failures[j].name # lines[i].name
            /\ results.report.failure_count = Cardinality(StatusIdx("overloaded"))
            /\ results.report.overall_stress =
                  IF Cardinality(counted) > 0
                  THEN RDiv(total, RInt(Cardinality(counted))) ELSE total

\* Sum of p0_nominal over the rows of idx at voltage level v.
RECURSIVE FlowSum(_, _)
FlowSum(idx, v) ==
    IF idx = {} THEN 0
    ELSE LET i == CHOOSE j \in idx : TRUE
         IN  (IF master_df.rows[i].v_nom = v
              THEN master_df.rows[i].p0_nominal ELSE 0) + FlowSum(idx \ {i}, v)

\* C17: the current load of an active line is its nominal flow times the
\* load multiplier plus the displaced load at its voltage level (load
\* multiplier times the nominal flow of the offline lines there) times its
\* redistribution factor: its nominal flow over the nominal flow of the
\* active lines of that level, 0 only when that total is 0.
C17_RedistributedLoad ==
    HasReport =>
        \A i \in 1..Len(results.line_results) :
            LET l == results.line_results[i]
                row == master_df.rows[i]
                active == {j \in 1..Len(master_df.rows) :
                             master_df.rows[j].name \notin sim.seenActive}
                offline == {j \in 1..Len(master_df.rows) :
                              master_df.rows[j].name \in sim.seenOffline}
                total == FlowSum(active, row.v_nom)
                displaced == RMul(req.load_mult, RInt(FlowSum(offline, row.v_nom)))
                factor == IF total = 0 THEN RZero ELSE Rat(row.p0_nominal, total)
            IN  l.initial_status \notin {"offline", "error"} =>
                    l.current_mva = RAdd(RMul(RInt(row.p0_nominal), req.load_mult),
                                         RMul(displaced, factor))

\* C18: a bus is overloaded iff it is an end of an overloaded line; offline
\* lines are black, overloaded lines red; a line that is not overloaded and
\* touches an overloaded bus is orange when stressed and keeps its default
\* colour (green for ok, gray for error) otherwise; every other active line
\* is green.
C18_Colours ==
    HasReport =>
        LET lines == results.line_results
            hot == UNION {{lines[i].bus0, lines[i].bus1} : i \in StatusIdx("overloaded")}
        IN  /\ results.bus_results = hot
            /\ \A i \in 1..Len(lines) :
                  LET l == lines[i]
                      touches == l.bus0 \in hot \/ l.bus1 \in hot
                  IN  l.final_color =
                         CASE l.initial_status = "offline" -> "black"
                           [] l.initial_status = "overloaded" -> "red"
                           [] l.initial_status = "stressed" /\ touches -> "orange"
                           [] l.initial_status = "error" /\ touches -> "gray"
                           [] OTHER -> "green"

\* C19: the overall stress is the mean loading of the overloaded lines
\* divided by the number of active lines, and 0 when no line is active or
\* none is overloaded.
C19_MeanOverloadPerActiveLine ==
    HasReport =>
        LET over == StatusIdx("overloaded")
            nActive == Cardinality(ActiveIdx(master_df, sim.seenActive))
        IN  results.report.overall_stress =
               IF over = {} \/ nActive = 0 THEN RZero
               ELSE RDiv(RDiv(LoadingSum(results.line_results, over),
                              RInt(Cardinality(over))),
                         RInt(nActive))

\* C20: the failures list holds exactly the overloaded lines, each once,
\* by loading descending, lines of equal loading in the frame's order; the
\* failure count is the length of the list.
C20_FailuresSorted ==
    HasReport =>
        LET f == results.report.top_failures
            lines == results.line_results
            Pos(j) == CHOOSE i \in 1..Len(lines) : lines[i].name = f[j].name
        IN  /\ results.report.failure_count = Len(f)
            /\ Len(f) = Cardinality(StatusIdx("overloaded"))
            /\ \A j \in 1..Len(f) :
                  /\ \E i \in StatusIdx("overloaded") : lines[i] = f[j]
                  /\ \A k \in 1..Len(f) : k # j => f[k].name # f[j].name
            /\ \A j \in 1..Len(f), k \in 1..Len(f) :
                  j < k => \/ RGt(f[j].loading, f[k].loading)
                           \/ /\ f[j].loading = f[k].loading
                              /\ Pos(j) < Pos(k)

\* Three failures: two of equal loading in the frame's order, one with a
\* different loading.
C20_Witness ==
    /\ HasReport
    /\ LET f == results.report.top_failures
       IN  /\ Len(f) >= 3
           /\ \E j \in 1..(Len(f) - 1) : f[j].loading = f[j + 1].loading
           /\ \E j \in 1..(Len(f) - 1) : RGt(f[j].loading, f[j + 1].loading)

\* The lines a candidate reroutes, and the number of its curtail genes.
Rerouted(genes) ==
    {genes[i].value : i \in {j \in 1..Len(genes) : genes[j].action_type = "REROUTE"}}
CurtailGenes(genes) ==
    Cardinality({j \in 1..Len(genes) : genes[j].action_type = "CURTAIL"})

\* The simulator's failure count for candidate genes on baseline base.
FailuresOf(genes, temp, wind, load, base) ==
    PhysicsState(master_df, temp, wind,
                 RSub(load, RMul(RInt(CurtailGenes(genes)), LOAD_CURTAIL_STEP)),
                 base \cup Rerouted(genes)).report.failure_count

\* The cost of candidate genes on baseline base.
CostOf(genes, base) ==
    COST_REROUTE_LINE * Cardinality(Rerouted(genes) \ base)
        + COST_LOAD_CURTAIL * CurtailGenes(genes)

\* C21: the fitness given to a candidate is failureCount x 1,000,000 + cost,
\* failureCount being the simulator's count for the baseline set united with
\* the candidate's rerouted lines at the baseline load less its curtail
\* steps, and cost COST_REROUTE_LINE per distinct rerouted line outside the
\* baseline plus COST_LOAD_CURTAIL per curtail gene; the evaluation leaves
\* the caller's baseline set as it was.
C21_Fitness ==
    [][pc = "ea_evaluate" =>
          /\ \A i \in 1..Len(pop) :
                pop[i].fit = -1 =>
                    pop'[i].fit =
                        FailuresOf(pop[i].genes, req.temp, req.wind,
                                   req.load_mult, heap[loc.orig]) * 1000000
                            + CostOf(pop[i].genes, heap[loc.orig])
          /\ heap'[loc.orig] = heap[loc.orig]]_vars

\* Evaluated: a candidate rerouting a baseline line and curtailing once, and
\* one rerouting the same new line twice.
C21_Witness ==
    /\ pc \in {"ea_select", "fr_finish"}
    /\ heap[loc.orig] = {"L2"}
    /\ \E i, j \in 1..Len(pop) :
          /\ pop[i].genes = <<Reroute("L2"), Curtail>>
          /\ pop[i].fit = 1000000 + COST_LOAD_CURTAIL
          /\ pop[j].genes = <<Reroute("L1"), Reroute("L1")>>
          /\ pop[j].fit = COST_REROUTE_LINE

\* The positions of pop that hold an evaluated candidate.
Evaluated == {i \in 1..Len(pop) : pop[i].fit # -1}

\* C22: the cost of every candidate is at most MAX_ACTIONS_PER_SOLUTION x
\* max(COST_REROUTE_LINE, COST_LOAD_CURTAIL), which is below 1,000,000, so
\* of two evaluated candidates the one with the strictly lower simulated
\* failure count has the strictly lower score, whatever their costs.
C22_FailuresDominate ==
    LET bound == MAX_ACTIONS_PER_SOLUTION * Max(COST_REROUTE_LINE, COST_LOAD_CURTAIL)
        F(i) == FailuresOf(pop[i].genes, req.temp, req.wind, req.load_mult,
                           heap[loc.orig])
    IN  /\ bound < 1000000
        /\ \A i \in Evaluated :
              /\ Len(pop[i].genes) \in 1..MAX_ACTIONS_PER_SOLUTION
              /\ pop[i].fit - F(i) * 1000000 \in 0..bound
              /\ \A j \in Evaluated : F(i) < F(j) => pop[i].fit < pop[j].fit

\* Two evaluated candidates: the one with fewer failures costs more.
C22_Witness ==
    \E i, j \in Evaluated :
        /\ FailuresOf(pop[i].genes, req.temp, req.wind, req.load_mult,
                      heap[loc.orig])
             < FailuresOf(pop[j].genes, req.temp, req.wind, req.load_mult,
                          heap[loc.orig])
        /\ CostOf(pop[i].genes, heap[loc.orig])
             > CostOf(pop[j].genes, heap[loc.orig])
        /\ pop[i].fit < pop[j].fit

\* C23: when the simulator fails for a candidate's configuration, by
\* returning no result or by raising, the fitness function returns the score
\* 999 x 1,000,000 + cost for the candidate and raises nothing.
C23_FaultAbsorbed ==
    (req.op = "evaluate" /\ (~master_df.loaded \/ SimulatorFaults(master_df))) =>
        /\ resp # Unhandled
        /\ pop[1].fit = 999 * 1000000 + CostOf(pop[1].genes, heap[loc.orig])

\* C24: every candidate of the initial population and of every later
\* generation, and the one kept in the hall of fame, is a sequence of 1 to
\* MAX_ACTIONS_PER_SOLUTION actions; creation, crossover and mutation all
\* keep the length drawn at import.
C24_CandidateLength ==
    /\ ind_len \in 1..MAX_ACTIONS_PER_SOLUTION
    /\ \A i \in 1..Len(pop) :
          /\ Len(pop[i].genes) \in 1..MAX_ACTIONS_PER_SOLUTION
          /\ Len(pop[i].genes) = ind_len
          /\ \A k \in 1..Len(pop[i].genes) : pop[i].genes[k] \in RandomActions
    /\ \A i \in 1..Len(hof) : Len(hof[i].genes) = ind_len

\* A generation after selection, crossover and mutation, with a candidate of
\* two different actions that is new (not yet evaluated).
C24_Witness ==
    /\ pc = "ea_evaluate"
    /\ gen = 1
    /\ ind_len = 2
    /\ \E i \in 1..Len(pop) :
          /\ pop[i].fit = -1
          /\ pop[i].genes[1] # pop[i].genes[2]

\* C25: the score kept in the hall of fame never increases during a search
\* and is no greater than the score of any evaluated candidate of the
\* population, generation after generation; the answer is made from that
\* score, also when the last generation's best is worse.
C25_BestSoFarKept ==
    [][/\ (hof # <<>> /\ hof' # <<>>) => hof'[1].fit <= hof[1].fit
       /\ hof' # <<>> =>
             \A i \in 1..Len(pop') :
                 pop'[i].fit # -1 => hof'[1].fit <= pop'[i].fit
       /\ (pc = "fr_finish" /\ pc' = "idle") =>
             resp'.remediated_failures * 1000000 + resp'.cost = hof[1].fit]_vars

\* The search ends on a generation all of whose candidates are worse than
\* the one kept from the initial population.
C25_Witness ==
    /\ pc = "fr_finish"
    /\ gen = 1
    /\ Len(pop) > 0
    /\ \A i \in 1..Len(pop) : pop[i].fit > hof[1].fit

\* The positions of a search that has registered its evaluator.
SearchPcs == {"fr_population", "ea_evaluate", "ea_select", "ea_mate",
              "ea_mutate", "fr_finish"}

\* C26: for every baseline with a failure and every candidate length the
\* generator can be configured with, a search that has started ends only by
\* returning a result, after all its generations.
C26_SearchReturns ==
    [][(pc \in SearchPcs /\ pc' = "idle") =>
          /\ resp'.kind = "remediation"
          /\ gen = MaxGen]_vars

\* The evaluator of the request in flight: its own ambient values, load
\* multiplier and baseline set.
OwnEvaluator ==
    [registered |-> TRUE, temp |-> req.temp, wind |-> req.wind,
     load |-> req.load_mult, base |-> loc.orig]

\* C27: with a second find_remediation request overlapping, every
\* evaluation of a search is made by the evaluator of its own request, and
\* the score it returns is the score of the returned candidate against its
\* own baseline set.
C27_OwnBaseline ==
    [][/\ pc = "ea_evaluate" => toolbox_evaluate = OwnEvaluator
       /\ (pc = "fr_finish" /\ pc' = "idle") =>
             resp'.remediated_failures * 1000000 + resp'.cost
                 = FailuresOf(hof[1].genes, req.temp, req.wind, req.load_mult,
                              heap[loc.orig]) * 1000000
                     + CostOf(hof[1].genes, heap[loc.orig])]_vars

\* The load a reported line carries beyond its own nominal flow times the
\* load multiplier; a line whose rating faulted is reported with no load.
ExtraLoad(i) ==
    LET l == results.line_results[i]
    IN  IF l.initial_status \in {"offline", "error"} THEN RZero
        ELSE RSub(l.current_mva,
                  RMul(RInt(master_df.rows[i].p0_nominal), req.load_mult))

RECURSIVE ExtraSum(_)
ExtraSum(idx) ==
    IF idx = {} THEN RZero
    ELSE LET i == CHOOSE j \in idx : TRUE
         IN  RAdd(ExtraLoad(i), ExtraSum(idx \ {i}))

\* C28: at every voltage level that still has an active line, the extra
\* loads of the active lines of that level sum to the displaced load of its
\* offline lines (their nominal flow times the load multiplier).
C28_LoadConserved ==
    HasReport =>
        \A k \in 1..Len(master_df.rows) :
            LET v == master_df.rows[k].v_nom
                level == {i \in 1..Len(master_df.rows) : master_df.rows[i].v_nom = v}
                active == level \cap ActiveIdx(master_df, sim.seenActive)
                offline == level \cap OfflineIdx(master_df, sim.seenOffline)
            IN  active # {} =>
                    ExtraSum(active) = RMul(req.load_mult, RInt(FlowSum(offline, v)))

=============================================================================
